---- MODULE Spec2Model ----
(***************************************************************************)
(* Mission store, slash commands and deadline scanner of bot.py.           *)
(*                                                                         *)
(* The store is the SQLite table `missions`; a row's id is its position    *)
(* (AUTOINCREMENT, rows are never deleted).  Each slash command is one     *)
(* step: its database commit and its response.  The deadline_check task    *)
(* is split at its await points: reading the clock, the SELECT, each       *)
(* member.send and each UPDATE ... commit, so that commands and the clock  *)
(* interleave with a scan exactly where the event loop lets them.          *)
(***************************************************************************)
EXTENDS Integers, Sequences, FiniteSets, TLC

\* ------------------------------------------------------------- bounds ----

\* Largest number of rows the table holds in the model.
MaxMissions == 2

\* Largest number of notices sent for one mission in the model.
MaxSent == 3

\* Largest number of rows of the table a view is opened on.
MaxRows == 45

\* ---------------------------------------------------------- constants ----

\* Rows per page of the MissionPager view.
PAGE_SIZE == 20

\* Seconds in the 1-hour window (`0 < diff <= 3600`).
HOUR == 3600
\* Seconds in the 24-hour window (`3600 < diff <= 86400`).
DAY == 86400

\* The role that may assign but, per its comment, not receive missions.
BLOCKED_RECEIVER == "1379270374914789577"

ASSIGNER_ROLES ==
    { "1379270374914789577", "1379270378672885811", "1379270389343191102",
      "1379270382405554266", "1379270385861660703", "1379270400688652342",
      "1382834652162818089" }

\* Optional values: None, or a one-element tuple holding the value.
None == <<>>
Some(v) == <<v>>

\* ------------------------------------------------------------- inputs ----

\* discord.Member objects: a user id and the ids of the roles held.
Chef == [id |-> "user_chef", roles |-> {BLOCKED_RECEIVER}]
Dev  == [id |-> "user_dev",  roles |-> {"role_everyone"}]
Members == {Chef, Dev}

Guilds == {"g1", "g2"}

\* Who is a member of which guild: a command is issued in a guild by one of
\* its members, and /mission_add names a member of that guild.
GuildMembers == [g \in Guilds |-> IF g = "g1" THEN {Chef, Dev} ELSE {Chef}]

\* Instants (seconds, UTC) at which the clock is observed.
Times == {0, 3600, 86400, 90000}

\* Values of the `deadline` parameter of /mission_add.
DeadlineArgs == {None, Some(90000)}

Descriptions == {"d"}

\* Values of the `statut` parameter of /mission_update.
Statuts == {"Fini"}

\* -------------------------------------------------------------- state ----

VARIABLES
    missions,   \* the table, in id order
    clock,      \* the current time
    scan,       \* the deadline_check task: where it is and its locals
    sent,       \* per mission id, the notices sent for it, in order
    reply,      \* the response the step just taken sent, if it was a command
    pager,      \* the MissionPager view of the last /mission_list
    loops,      \* how many deadline_check loop tasks are alive
    cache,      \* the ids of the users bot.get_user resolves
    failed      \* per mission id, the notices whose last send raised

vars == <<missions, clock, scan, sent, reply, pager, loops, cache, failed>>

\* ------------------------------------------------------------ helpers ----

\* datetime.isoformat: the text holds a date part and a time-of-day part.
isoformat(t) == [date |-> t \div DAY, time |-> t % DAY]

\* datetime.fromisoformat of a text that isoformat produced.
fromisoformat(iso) == iso.date * DAY + iso.time

\* dl_iso = deadline.isoformat() if deadline else None
to_dl_iso(deadline) ==
    IF deadline # None THEN Some(isoformat(deadline[1])) ELSE None

is_assigner(member) == member.roles \cap ASSIGNER_ROLES # {}

\* The ids of all users.
UserIds == {m.id : m \in Members}

\* `match etat`: the value of done the rows are filtered by, None for all.
list_flag(etat) ==
    IF etat = "open" THEN Some(FALSE)
    ELSE IF etat = "done" THEN Some(TRUE)
    ELSE None

\* `match etat`: the title of the view.
list_title(etat) ==
    IF etat = "open" THEN "Missions en cours"
    ELSE IF etat = "done" THEN "Missions terminees"
    ELSE "Toutes les missions"

\* SELECT id, description, deadline, assignee, status FROM missions
\* WHERE guild=? [AND done=?] ORDER BY id
list_missions(tbl, guild, done) ==
    LET keep(r) == r.guild = guild /\ (done = None \/ r.done = done[1])
        kept == SelectSeq(tbl, keep)
    IN  [n \in DOMAIN kept |->
            [id |-> kept[n].id, desc |-> kept[n].description,
             dl_iso |-> kept[n].deadline, uid |-> kept[n].assignee,
             status |-> kept[n].status]]

\* MissionPager.prev
pager_prev(p) == IF p.page > 0 THEN [p EXCEPT !.page = @ - 1] ELSE p

\* Mutant of pager_next: the bound of the last page is inclusive.
pager_next_inclusive(p) ==
    IF (p.page + 1) * PAGE_SIZE <= Len(p.data)
    THEN [p EXCEPT !.page = @ + 1] ELSE p

\* MissionPager.next
pager_next(p) ==
    IF (p.page + 1) * PAGE_SIZE < Len(p.data)
    THEN [p EXCEPT !.page = @ + 1] ELSE p

\* MissionPager.make_embed: the rows shown on the current page.
page_rows(p) ==
    SubSeq(p.data, p.page * PAGE_SIZE + 1,
           IF (p.page + 1) * PAGE_SIZE < Len(p.data)
           THEN (p.page + 1) * PAGE_SIZE ELSE Len(p.data))

\* Mutant of add_mission: an empty description is not stored.
add_mission_nonempty(tbl, guild, author, assignee, desc, dl_iso) ==
    IF desc = "" THEN tbl
    ELSE Append(tbl, [id          |-> Len(tbl) + 1,
                      guild       |-> guild,
                      author      |-> author,
                      assignee    |-> assignee,
                      description |-> desc,
                      deadline    |-> dl_iso,
                      status      |-> "En cours",
                      done        |-> FALSE,
                      reminded_24 |-> FALSE,
                      reminded_1  |-> FALSE])

\* INSERT INTO missions (guild, author, assignee, description, deadline);
\* the other columns take the defaults of CREATE_SQL.
add_mission(tbl, guild, author, assignee, desc, dl_iso) ==
    Append(tbl, [id          |-> Len(tbl) + 1,
                 guild       |-> guild,
                 author      |-> author,
                 assignee    |-> assignee,
                 description |-> desc,
                 deadline    |-> dl_iso,
                 status      |-> "En cours",
                 done        |-> FALSE,
                 reminded_24 |-> FALSE,
                 reminded_1  |-> FALSE])

\* Mutant of complete_mission: the row is found by its id alone.
complete_mission_any_guild(tbl, mid, guild) ==
    [i \in DOMAIN tbl |->
        IF tbl[i].id = mid THEN [tbl[i] EXCEPT !.done = TRUE] ELSE tbl[i]]

\* Mutant of complete_mission: the flag is flipped instead of set.
complete_mission_toggle(tbl, mid, guild) ==
    [i \in DOMAIN tbl |->
        IF tbl[i].id = mid /\ tbl[i].guild = guild
        THEN [tbl[i] EXCEPT !.done = ~@]
        ELSE tbl[i]]

\* UPDATE missions SET done=1 WHERE id=? AND guild=?
complete_mission(tbl, mid, guild) ==
    [i \in DOMAIN tbl |->
        IF tbl[i].id = mid /\ tbl[i].guild = guild
        THEN [tbl[i] EXCEPT !.done = TRUE]
        ELSE tbl[i]]

\* Mutant of update_allowed: the assignee of the row is not compared.
update_allowed_any_caller(tbl, mid, guild, user_id) ==
    \E i \in DOMAIN tbl : tbl[i].id = mid /\ tbl[i].guild = guild

\* The return value of update_mission_status: a row with that id and guild
\* exists and its assignee is the caller.
update_allowed(tbl, mid, guild, user_id) ==
    LET row == {i \in DOMAIN tbl : tbl[i].id = mid /\ tbl[i].guild = guild}
    IN  row # {} /\ \A i \in row : tbl[i].assignee = user_id

\* The table after update_mission_status.
update_mission_status(tbl, mid, guild, user_id, new_status) ==
    IF update_allowed(tbl, mid, guild, user_id)
    THEN [i \in DOMAIN tbl |->
            IF tbl[i].id = mid
            THEN [tbl[i] EXCEPT !.status = new_status]
            ELSE tbl[i]]
    ELSE tbl

\* Mutant of mark_reminded: recording the 1-hour notice resets the flag of
\* the 24-hour one.
mark_reminded_exclusive(tbl, mid, kind) ==
    [i \in DOMAIN tbl |->
        IF tbl[i].id # mid THEN tbl[i]
        ELSE IF kind = "1h"
        THEN [tbl[i] EXCEPT !.reminded_1 = TRUE, !.reminded_24 = FALSE]
        ELSE [tbl[i] EXCEPT !.reminded_24 = TRUE]]

\* Mutant of mark_reminded: the UPDATE is never committed.
mark_reminded_uncommitted(tbl, mid, kind) == tbl

\* UPDATE missions SET reminded_1=1 / reminded_24=1 WHERE id=?
mark_reminded(tbl, mid, kind) ==
    [i \in DOMAIN tbl |->
        IF tbl[i].id # mid THEN tbl[i]
        ELSE IF kind = "1h" THEN [tbl[i] EXCEPT !.reminded_1 = TRUE]
        ELSE [tbl[i] EXCEPT !.reminded_24 = TRUE]]

\* Mutant of open_dated: the SELECT keeps the rows without a deadline and
\* reads a missing deadline as a default date.
open_dated_default(tbl) ==
    SelectSeq([i \in DOMAIN tbl |->
                  [id |-> tbl[i].id, desc |-> tbl[i].description,
                   dl_iso |-> IF tbl[i].deadline = None
                              THEN Some(isoformat(DAY + HOUR))
                              ELSE tbl[i].deadline,
                   uid |-> tbl[i].assignee,
                   r24 |-> tbl[i].reminded_24, r1 |-> tbl[i].reminded_1,
                   done |-> tbl[i].done]],
              LAMBDA r : ~r.done)

\* SELECT id, description, deadline, assignee, reminded_24, reminded_1
\* FROM missions WHERE done=0 AND deadline IS NOT NULL
open_dated(tbl) ==
    SelectSeq([i \in DOMAIN tbl |->
                  [id |-> tbl[i].id, desc |-> tbl[i].description,
                   dl_iso |-> tbl[i].deadline, uid |-> tbl[i].assignee,
                   r24 |-> tbl[i].reminded_24, r1 |-> tbl[i].reminded_1,
                   done |-> tbl[i].done]],
              LAMBDA r : ~r.done /\ r.dl_iso # None)

\* bot.get_user: the users the client has cached.
get_user(uid) == uid \in cache

\* Mutant of notice: the 24-hour test comes first and its window has no
\* lower end.
notice_day_first(row, now) ==
    LET diff == fromisoformat(row.dl_iso[1]) - now
    IN  IF ~get_user(row.uid) THEN "none"
        ELSE IF 0 < diff /\ diff <= DAY /\ ~row.r24 THEN "24h"
        ELSE IF 0 < diff /\ diff <= HOUR /\ ~row.r1 THEN "1h"
        ELSE "none"

\* Mutant of notice: the 1-hour window excludes its upper end.
notice_hour_exclusive(row, now) ==
    LET diff == fromisoformat(row.dl_iso[1]) - now
    IN  IF ~get_user(row.uid) THEN "none"
        ELSE IF 0 < diff /\ diff < HOUR /\ ~row.r1 THEN "1h"
        ELSE IF HOUR < diff /\ diff <= DAY /\ ~row.r24 THEN "24h"
        ELSE "none"

\* Mutant of notice: the 24-hour window has no lower end.
notice_day_open(row, now) ==
    LET diff == fromisoformat(row.dl_iso[1]) - now
    IN  IF ~get_user(row.uid) THEN "none"
        ELSE IF 0 < diff /\ diff <= HOUR /\ ~row.r1 THEN "1h"
        ELSE IF 0 < diff /\ diff <= DAY /\ ~row.r24 THEN "24h"
        ELSE "none"

\* The body of the for loop for one row: which notice it sends, if any.
notice(row, now) ==
    LET diff == fromisoformat(row.dl_iso[1]) - now
    IN  IF ~get_user(row.uid) THEN "none"
        ELSE IF 0 < diff /\ diff <= HOUR /\ ~row.r1 THEN "1h"
        ELSE IF HOUR < diff /\ diff <= DAY /\ ~row.r24 THEN "24h"
        ELSE "none"

\* Mutant of next_due: the loop stops at a row whose user does not resolve.
RECURSIVE next_due_break(_, _, _)
next_due_break(rows, i, now) ==
    IF i > Len(rows) THEN i
    ELSE IF ~get_user(rows[i].uid) THEN Len(rows) + 1
    ELSE IF notice(rows[i], now) # "none" THEN i
    ELSE next_due_break(rows, i + 1, now)

\* The loop runs without awaiting over the rows that send nothing: the
\* position of the first row from i on that sends, or Len(rows) + 1.
RECURSIVE next_due(_, _, _)
next_due(rows, i, now) ==
    IF i > Len(rows) THEN i
    ELSE IF notice(rows[i], now) # "none" THEN i
    ELSE next_due(rows, i + 1, now)

\* --------------------------------------------------------- task state ----

\* The locals of deadline_check between two iterations of its loop.
Idle == [pc |-> "idle", now |-> 0, rows |-> <<>>, i |-> 1, kind |-> "none"]

\* No loop task is alive: before the first on_ready, or after an exception
\* ended the task.
Stopped == [Idle EXCEPT !.pc = "stopped"]

\* Mutant of is_running: a live loop task is not seen.
is_running_never == FALSE

\* deadline_check.is_running()
is_running == loops > 0

\* A response: the command and its arguments (id is 0 and membre is "" for
\* a command that has none) and the text sent back.
Response(cmd, inter_user, guild_id, id, membre, text) ==
    [cmd |-> cmd, user |-> inter_user.id, guild |-> guild_id, id |-> id,
     membre |-> membre, text |-> text]

NoReply == [cmd |-> "none", user |-> "", guild |-> "", id |-> 0,
            membre |-> "", text |-> ""]

\* The texts of the responses.
CHECK_FAILURE  == "Vous n'avez pas le role requis"
ADD_BLOCKED    == "ne peut pas recevoir de missions"
ADD_OK         == "Mission assignee"
DONE_OK        == "Mission terminee"
UPDATE_OK      == "Statut mis a jour"
UPDATE_REFUSED == "Vous n'etes pas l'assigne de cette mission"
LIST_INVALID   == "etat invalide"
LIST_EMPTY     == "Aucune mission trouvee"
LIST_EMBED     == "embed"

\* No /mission_list has shown a view yet.
NoPager == [data |-> <<>>, title |-> "", page |-> 0]

\* MissionPager.__init__
MissionPager(data, title) == [data |-> data, title |-> title, page |-> 0]

Init ==
    /\ missions = <<>>
    /\ clock = 0
    /\ scan = Stopped
    /\ sent = [m \in 1..MaxMissions |-> <<>>]
    /\ reply = NoReply
    /\ pager = NoPager
    /\ loops = 0
    /\ cache = UserIds
    /\ failed = [m \in 1..MaxMissions |-> {}]

\* ----------------------------------------------------------- commands ----

\* /mission_add
mission_add(inter_user, guild_id, membre, description, deadline) ==
    /\ Len(missions) < MaxMissions
    /\ LET R(text) == Response("mission_add", inter_user, guild_id, 0,
                                membre.id, text)
       IN  IF ~is_assigner(inter_user)
           THEN /\ reply' = R(CHECK_FAILURE)
                /\ UNCHANGED missions
           ELSE IF membre.id = BLOCKED_RECEIVER
           THEN /\ reply' = R(ADD_BLOCKED)
                /\ UNCHANGED missions
           ELSE /\ missions' = add_mission(missions, guild_id, inter_user.id,
                                           membre.id, description,
                                           to_dl_iso(deadline))
                /\ reply' = R(ADD_OK)
    /\ UNCHANGED <<clock, scan, sent, pager, loops, cache, failed>>

\* /mission_list
mission_list(inter_user, guild_id, etat) ==
    /\ LET R(text) == Response("mission_list", inter_user, guild_id, 0, "",
                                text)
           rows == list_missions(missions, guild_id, list_flag(etat))
       IN  IF etat \notin {"open", "done", "all"}
           THEN /\ reply' = R(LIST_INVALID)
                /\ UNCHANGED pager
           ELSE IF rows = <<>>
           THEN /\ reply' = R(LIST_EMPTY)
                /\ UNCHANGED pager
           ELSE /\ pager' = MissionPager(rows, list_title(etat))
                /\ reply' = R(LIST_EMBED)
    /\ UNCHANGED <<missions, clock, scan, sent, loops, cache, failed>>

\* The ◀ button of the view.
prev ==
    /\ pager # NoPager
    /\ pager' = pager_prev(pager)
    /\ reply' = [NoReply EXCEPT !.cmd = "prev"]
    /\ UNCHANGED <<missions, clock, scan, sent, loops, cache, failed>>

\* The ▶ button of the view.
next ==
    /\ pager # NoPager
    /\ pager' = pager_next(pager)
    /\ reply' = [NoReply EXCEPT !.cmd = "next"]
    /\ UNCHANGED <<missions, clock, scan, sent, loops, cache, failed>>

\* /mission_done
mission_done(inter_user, guild_id, id) ==
    /\ LET R(text) == Response("mission_done", inter_user, guild_id, id, "",
                                text)
       IN  IF ~is_assigner(inter_user)
           THEN /\ reply' = R(CHECK_FAILURE)
                /\ UNCHANGED missions
           ELSE /\ missions' = complete_mission(missions, id, guild_id)
                /\ reply' = R(DONE_OK)
    /\ UNCHANGED <<clock, scan, sent, pager, loops, cache, failed>>

\* /mission_update
mission_update(inter_user, guild_id, id, statut) ==
    /\ missions' = update_mission_status(missions, id, guild_id,
                                         inter_user.id, statut)
    /\ reply' = Response("mission_update", inter_user, guild_id, id, "",
                         IF update_allowed(missions, id, guild_id,
                                           inter_user.id)
                         THEN UPDATE_OK ELSE UPDATE_REFUSED)
    /\ UNCHANGED <<clock, scan, sent, pager, loops, cache, failed>>

\* ----------------------------------------------------------- on_ready ----

\* on_ready: the loop is started unless a loop task is alive.
on_ready ==
    /\ IF ~is_running
       THEN /\ loops' = loops + 1
            /\ scan' = Idle
       ELSE UNCHANGED <<loops, scan>>
    /\ reply' = [NoReply EXCEPT !.cmd = "on_ready"]
    /\ UNCHANGED <<missions, clock, sent, pager, cache, failed>>

\* ------------------------------------------------------ deadline_check ----

\* An iteration of the loop starts: now = datetime.now(utc).
ScanBegin ==
    /\ scan.pc = "idle"
    /\ scan' = [Idle EXCEPT !.pc = "select", !.now = clock]
    /\ reply' = NoReply
    /\ UNCHANGED <<missions, clock, sent, pager, loops, cache, failed>>

\* The SELECT of the open missions that have a deadline.
ScanSelect ==
    /\ scan.pc = "select"
    /\ scan' = [scan EXCEPT !.pc = "loop", !.rows = open_dated(missions)]
    /\ reply' = NoReply
    /\ UNCHANGED <<missions, clock, sent, pager, loops, cache, failed>>

\* The loop reaches a row that is due and sends its notice.
ScanSend ==
    /\ scan.pc = "loop"
    /\ LET j == next_due(scan.rows, scan.i, scan.now)
           kind == notice(scan.rows[j], scan.now)
       IN  /\ j <= Len(scan.rows)
           /\ Len(sent[scan.rows[j].id]) < MaxSent
           /\ sent' = [sent EXCEPT ![scan.rows[j].id] = Append(@, kind)]
           /\ failed' = [failed EXCEPT ![scan.rows[j].id] = @ \ {kind}]
           /\ scan' = [scan EXCEPT !.pc = "mark", !.i = j, !.kind = kind]
    /\ reply' = NoReply
    /\ UNCHANGED <<missions, clock, pager, loops, cache>>

\* The UPDATE that records the notice just sent, committed.
ScanMark ==
    /\ scan.pc = "mark"
    /\ missions' = mark_reminded(missions, scan.rows[scan.i].id, scan.kind)
    /\ scan' = [scan EXCEPT !.pc = "loop", !.i = scan.i + 1,
                            !.kind = "none"]
    /\ reply' = NoReply
    /\ UNCHANGED <<clock, sent, pager, loops, cache, failed>>

\* No row from the current one on is due: the iteration ends.
ScanEnd ==
    /\ scan.pc = "loop"
    /\ next_due(scan.rows, scan.i, scan.now) > Len(scan.rows)
    /\ scan' = Idle
    /\ reply' = NoReply
    /\ UNCHANGED <<missions, clock, sent, pager, loops, cache, failed>>

\* What an exception raised inside deadline_check does to the loop task:
\* tasks.loop runs the iteration again after one of the connection errors
\* it expects, and lets any other exception end the task.
Raised(outcome) ==
    /\ scan' = IF outcome = "retry" THEN Idle ELSE Stopped
    /\ loops' = IF outcome = "retry" THEN loops ELSE loops - 1

\* member.send raises for the row that is due: nothing is delivered and the
\* exception leaves deadline_check.
ScanSendFail ==
    /\ scan.pc = "loop"
    /\ LET j == next_due(scan.rows, scan.i, scan.now)
           kind == notice(scan.rows[j], scan.now)
       IN  /\ j <= Len(scan.rows)
           /\ failed' = [failed EXCEPT ![scan.rows[j].id] = @ \cup {kind}]
    /\ \E outcome \in {"retry", "dead"} : Raised(outcome)
    /\ reply' = NoReply
    /\ UNCHANGED <<missions, clock, sent, pager, cache>>

\* The UPDATE or its commit raises after the notice was sent: the flag is
\* not written and the exception leaves deadline_check.
ScanMarkFail ==
    /\ scan.pc = "mark"
    /\ \E outcome \in {"retry", "dead"} : Raised(outcome)
    /\ reply' = NoReply
    /\ UNCHANGED <<missions, clock, sent, pager, cache, failed>>

\* A user leaves or enters the client's user cache.
CacheChange ==
    /\ \E uid \in UserIds :
          cache' = IF uid \in cache THEN cache \ {uid} ELSE cache \cup {uid}
    /\ reply' = NoReply
    /\ UNCHANGED <<missions, clock, scan, sent, pager, loops, failed>>

\* Time passes.
Tick ==
    /\ \E t \in Times : t > clock /\ clock' = t
    /\ reply' = NoReply
    /\ UNCHANGED <<missions, scan, sent, pager, loops, cache, failed>>

\* ------------------------------------------------------ specification ----

\* The commands, the clock and the scanner, with every assignee resolvable
\* and every send and write of the scanner succeeding.
Next ==
    \/ \E g \in Guilds : \E u \in GuildMembers[g], m \in GuildMembers[g],
          d \in Descriptions, dl \in DeadlineArgs : mission_add(u, g, m, d, dl)
    \/ \E g \in Guilds : \E u \in GuildMembers[g], id \in 1..MaxMissions :
          mission_done(u, g, id)
    \/ \E g \in Guilds : \E u \in GuildMembers[g], id \in 1..MaxMissions,
          s \in Statuts : mission_update(u, g, id, s)
    \/ on_ready
    \/ ScanBegin
    \/ ScanSelect
    \/ ScanSend
    \/ ScanMark
    \/ ScanEnd
    \/ Tick

Spec == Init /\ [][Next]_vars

\* The view of /mission_list: the guild g1 holds up to MaxRows missions
\* when the bot comes up, a member lists them and presses the buttons.
RECURSIVE Filled(_)
Filled(n) ==
    IF n = 0 THEN <<>>
    ELSE add_mission(Filled(n - 1), "g1", Chef.id, Dev.id, "d", None)

\* The values a caller gives for etat.
Etats == {"open", "done", "all", "x"}

InitPager ==
    /\ missions \in {Filled(n) : n \in 0..MaxRows}
    /\ clock = 0
    /\ scan = Stopped
    /\ sent = [m \in 1..MaxMissions |-> <<>>]
    /\ reply = NoReply
    /\ pager = NoPager
    /\ loops = 0
    /\ cache = UserIds
    /\ failed = [m \in 1..MaxMissions |-> {}]

NextPager ==
    \/ \E u \in GuildMembers["g1"], etat \in Etats : mission_list(u, "g1", etat)
    \/ prev
    \/ next

SpecPager == InitPager /\ [][NextPager]_vars

\* The commands alone: missions are added, listed, completed and updated
\* from both guilds while the scanner is not running.
NextList ==
    \/ \E g \in Guilds : \E u \in GuildMembers[g], m \in GuildMembers[g],
          d \in Descriptions, dl \in DeadlineArgs : mission_add(u, g, m, d, dl)
    \/ \E g \in Guilds : \E u \in GuildMembers[g], etat \in Etats :
          mission_list(u, g, etat)
    \/ \E g \in Guilds : \E u \in GuildMembers[g], id \in 1..MaxMissions :
          mission_done(u, g, id)
    \/ \E g \in Guilds : \E u \in GuildMembers[g], id \in 1..MaxMissions,
          s \in Statuts : mission_update(u, g, id, s)

SpecList == Init /\ [][NextList]_vars

\* /mission_add with every kind of argument, while time passes: the
\* description may be empty and the deadline may lie before the clock.
AddDescriptions == {"", "d"}

AddDeadlineArgs == {None, Some(3600), Some(90000)}

NextAdd ==
    \/ \E g \in Guilds : \E u \in GuildMembers[g], m \in GuildMembers[g],
          d \in AddDescriptions, dl \in AddDeadlineArgs :
             mission_add(u, g, m, d, dl)
    \/ Tick

SpecAdd == Init /\ [][NextAdd]_vars

\* The scanner while users leave and enter the cache behind bot.get_user:
\* missions are added, time passes, and every send and write succeeds.
NextLeave ==
    \/ \E g \in Guilds : \E u \in GuildMembers[g], m \in GuildMembers[g],
          d \in Descriptions, dl \in DeadlineArgs : mission_add(u, g, m, d, dl)
    \/ on_ready
    \/ ScanBegin
    \/ ScanSelect
    \/ ScanSend
    \/ ScanMark
    \/ ScanEnd
    \/ CacheChange
    \/ Tick

SpecLeave == Init /\ [][NextLeave]_vars

\* The scanner when member.send and the flag write may raise: missions with
\* one of two deadlines are added, time passes, and on_ready fires again at
\* any moment.
FaultDeadlineArgs == {Some(86400), Some(90000)}

NextFaults ==
    \/ \E g \in Guilds : \E u \in GuildMembers[g], m \in GuildMembers[g],
          d \in Descriptions, dl \in FaultDeadlineArgs :
             mission_add(u, g, m, d, dl)
    \/ on_ready
    \/ ScanBegin
    \/ ScanSelect
    \/ ScanSend
    \/ ScanSendFail
    \/ ScanMark
    \/ ScanMarkFail
    \/ ScanEnd
    \/ Tick

SpecFaults == Init /\ [][NextFaults]_vars

\* ------------------------------------------------------------- claims ----

Kinds == {"1h", "24h"}

\* How many times a notice of kind k was sent for mission m.
Count(m, k) == Cardinality({n \in DOMAIN sent[m] : sent[m][n] = k})

\* The members that hold the blocked-receiver role.
BlockedMembers == {m \in Members : BLOCKED_RECEIVER \in m.roles}

\* C1: for every mission and each threshold, however scans and commands
\* interleave, the notice of that threshold is sent at most once.
C1_AtMostOnce ==
    \A m \in 1..MaxMissions : \A k \in Kinds : Count(m, k) <= 1

\* C1 witness: both notices of a mission were sent and a later scan, at an
\* instant still inside the 1-hour window, has read the mission again.
C1_Witness ==
    /\ scan.pc = "loop"
    /\ \E n \in DOMAIN scan.rows :
          /\ sent[scan.rows[n].id] = <<"24h", "1h">>
          /\ scan.rows[n].r1 /\ scan.rows[n].r24
          /\ fromisoformat(scan.rows[n].dl_iso[1]) - scan.now = HOUR

\* C2: no notice is sent for a mission that is done at the moment of
\* sending, also when mission_done commits between the scan's SELECT and
\* the send.
C2_NoNoticeWhenDone ==
    [][\A m \in 1..MaxMissions :
          sent'[m] # sent[m] => ~missions[m].done]_vars

\* The member with that user id.
MemberOf(uid) == CHOOSE m \in Members : m.id = uid

\* C3: /mission_add by an authorized caller for a member who holds the
\* blocked-receiver role answers with the refusal and adds no row.
C3_BlockedRoleRefused ==
    [][(/\ reply'.cmd = "mission_add"
        /\ is_assigner(MemberOf(reply'.user))
        /\ MemberOf(reply'.membre) \in BlockedMembers)
          => (missions' = missions /\ reply'.text = ADD_BLOCKED)]_vars

\* The rows of the table with that id, in any guild.
RowsWithId(id) == {i \in DOMAIN missions : missions[i].id = id}

\* C4: /mission_update by a caller who is not the assignee of the mission
\* with that id is refused and changes no field of any mission; a status
\* changes only in a /mission_update step whose caller is the assignee.
C4_OnlyAssigneeUpdates ==
    [][/\ (/\ reply'.cmd = "mission_update"
           /\ \A i \in RowsWithId(reply'.id) :
                 missions[i].assignee # reply'.user)
             => (missions' = missions /\ reply'.text = UPDATE_REFUSED)
       /\ \A i \in DOMAIN missions :
             missions'[i].status # missions[i].status
                => /\ reply'.cmd = "mission_update"
                   /\ reply'.id = missions[i].id
                   /\ reply'.user = missions[i].assignee]_vars

\* C4 witness: the refusal of an update of an existing mission of the
\* caller's guild by a caller who is not its assignee.
C4_Witness ==
    /\ reply.cmd = "mission_update"
    /\ reply.text = UPDATE_REFUSED
    /\ \E i \in DOMAIN missions :
          /\ missions[i].id = reply.id
          /\ missions[i].guild = reply.guild
          /\ missions[i].assignee # reply.user
          /\ missions[i].status = "En cours"

\* C5: once a mission is done, no later step changes its status,
\* reminded_24 or reminded_1.
C5_DoneIsTerminal ==
    [][\A i \in DOMAIN missions :
          missions[i].done
             => /\ missions'[i].status = missions[i].status
                /\ missions'[i].reminded_24 = missions[i].reminded_24
                /\ missions'[i].reminded_1 = missions[i].reminded_1]_vars

\* C6: /mission_done by an authorized caller answers with success and
\* leaves the mission of that id and guild done; called again, on a mission
\* already done, it answers with success again and the table stays as it is.
C6_DoneIdempotent ==
    [][(/\ reply'.cmd = "mission_done"
        /\ is_assigner(MemberOf(reply'.user)))
          => LET target == {i \in DOMAIN missions :
                               /\ missions[i].id = reply'.id
                               /\ missions[i].guild = reply'.guild}
             IN  /\ reply'.text = DONE_OK
                 /\ \A i \in target : missions'[i].done
                 /\ (\A i \in target : missions[i].done)
                       => missions' = missions]_vars

\* C6 witness: the success answer of /mission_done on a mission of the
\* caller's guild, which is done.
C6_Witness ==
    /\ reply.cmd = "mission_done"
    /\ reply.text = DONE_OK
    /\ \E i \in DOMAIN missions :
          /\ missions[i].id = reply.id
          /\ missions[i].guild = reply.guild
          /\ missions[i].done

\* The remaining time of a row of the scan's snapshot, as the scan sees it.
Remaining(row) == fromisoformat(row.dl_iso[1]) - scan.now

\* C7: a scan that reads a mission on which no threshold has fired (as on
\* its first evaluation) with 0 < remaining <= 1h has, when it ends, sent
\* the 1-hour notice and nothing else for it and set reminded_1 alone; from
\* then on nothing more is sent for it and reminded_24 stays false; and the
\* notices of a mission are sent in the order 24-hour, 1-hour.
C7_HourWindowFirst ==
    [][/\ (scan.pc = "loop" /\ scan'.pc = "idle")
             => \A n \in DOMAIN scan.rows :
                   (/\ 0 < Remaining(scan.rows[n])
                    /\ Remaining(scan.rows[n]) <= HOUR
                    /\ ~scan.rows[n].r1 /\ ~scan.rows[n].r24)
                      => /\ sent[scan.rows[n].id] = <<"1h">>
                         /\ missions[scan.rows[n].id].reminded_1
                         /\ ~missions[scan.rows[n].id].reminded_24
       /\ \A m \in DOMAIN missions :
             sent[m] = <<"1h">>
                => (sent'[m] = <<"1h">> /\ ~missions'[m].reminded_24)
       /\ \A m \in 1..MaxMissions :
             sent'[m] \in {<<>>, <<"24h">>, <<"1h">>, <<"24h", "1h">>}]_vars

\* C7 witness: a mission got the 1-hour notice alone, and a second scan at
\* the same instant has read it again and is about to end without sending.
C7_Witness ==
    /\ scan.pc = "loop"
    /\ scan.now = clock
    /\ next_due(scan.rows, scan.i, scan.now) > Len(scan.rows)
    /\ \E n \in DOMAIN scan.rows :
          /\ Remaining(scan.rows[n]) = HOUR
          /\ scan.rows[n].r1 /\ ~scan.rows[n].r24
          /\ sent[scan.rows[n].id] = <<"1h">>

\* C8: once reminded_1 is true for a mission, no step sends a notice of
\* either kind for it.
C8_SilentAfterHourFlag ==
    [][\A m \in DOMAIN missions :
          missions[m].reminded_1 => sent'[m] = sent[m]]_vars

\* C8 witness: a scan passes over a mission whose reminded_1 is true while
\* its reminded_24 is false and its deadline is still ahead.
C8_Witness ==
    /\ scan.pc = "loop"
    /\ \E n \in DOMAIN scan.rows :
          /\ n >= scan.i
          /\ n < next_due(scan.rows, scan.i, scan.now)
          /\ scan.rows[n].r1 /\ ~scan.rows[n].r24
          /\ Remaining(scan.rows[n]) > 0

\* C9: a mission created without a deadline never gets a notice and its
\* reminded flags stay false.
C9_NoDeadlineNoNotice ==
    \A i \in DOMAIN missions :
        missions[i].deadline = None
           => /\ sent[i] = <<>>
              /\ ~missions[i].reminded_24
              /\ ~missions[i].reminded_1
              /\ \A n \in DOMAIN scan.rows : scan.rows[n].id # i

\* C9 witness: a scan that had a mission without a deadline in the table
\* has sent a notice for the mission created after it.
C9_Witness ==
    /\ Len(missions) = 2
    /\ missions[1].deadline = None
    /\ ~missions[1].done
    /\ scan.pc = "mark"
    /\ scan.rows[scan.i].id = 2

\* C10: done, reminded_24 and reminded_1 of a mission never go from true
\* to false, whatever the step.
C10_FlagsMonotonic ==
    [][\A i \in DOMAIN missions :
          /\ missions[i].done => missions'[i].done
          /\ missions[i].reminded_24 => missions'[i].reminded_24
          /\ missions[i].reminded_1 => missions'[i].reminded_1]_vars

\* C10 witness: a mission with the three flags set, after a later command.
C10_Witness ==
    /\ reply.cmd = "mission_done"
    /\ \E i \in DOMAIN missions :
          /\ missions[i].done
          /\ missions[i].reminded_24
          /\ missions[i].reminded_1
          /\ missions[i].id # reply.id

\* C11: a view always shows an existing, non-empty page: 0 <= page and
\* page * PAGE_SIZE < number of rows; ▶ moves to the next page exactly when
\* (page + 1) * PAGE_SIZE < number of rows and otherwise changes nothing,
\* ◀ moves back exactly when page > 0 and otherwise changes nothing; with
\* 45 rows the pages are 0, 1 and 2, of 20, 20 and 5 rows.
C11_PagerCursor ==
    /\ [](pager # NoPager =>
            /\ 0 <= pager.page
            /\ pager.page * PAGE_SIZE < Len(pager.data)
            /\ page_rows(pager) # <<>>
            /\ Len(pager.data) = 45 =>
                  /\ pager.page \in 0..2
                  /\ Len(page_rows(pager)) = IF pager.page = 2 THEN 5 ELSE 20)
    /\ [][/\ reply'.cmd = "next" =>
                pager' = [pager EXCEPT !.page =
                            IF (@ + 1) * PAGE_SIZE < Len(pager.data)
                            THEN @ + 1 ELSE @]
          /\ reply'.cmd = "prev" =>
                pager' = [pager EXCEPT !.page = IF @ > 0 THEN @ - 1 ELSE @]
         ]_vars

\* ▶ has brought a view of 45 rows to its last page.
C11_Witness ==
    /\ Len(pager.data) = 45
    /\ pager.page = 2
    /\ reply.cmd = "next"

\* C12: /mission_list, /mission_done and /mission_update issued from a
\* guild change no row of another guild, neither add nor remove rows, and
\* the view of /mission_list holds rows of the caller's guild only.
C12_GroupIsolation ==
    [][/\ reply'.cmd \in {"mission_list", "mission_done", "mission_update"} =>
            /\ Len(missions') = Len(missions)
            /\ \A i \in DOMAIN missions :
                  missions[i].guild # reply'.guild => missions'[i] = missions[i]
       /\ reply'.cmd = "mission_list" /\ reply'.text = LIST_EMBED =>
            \A n \in DOMAIN pager'.data :
               \E i \in DOMAIN missions :
                  /\ missions[i].id = pager'.data[n].id
                  /\ missions[i].guild = reply'.guild
      ]_vars

\* /mission_done was given, from one guild, the id of an open mission of
\* the other guild, and answered.
C12_Witness ==
    /\ reply.cmd = "mission_done"
    /\ reply.text = DONE_OK
    /\ \E i \in DOMAIN missions :
          /\ missions[i].id = reply.id
          /\ missions[i].guild # reply.guild
          /\ ~missions[i].done

\* The arguments of /mission_add the claim C13 wants refused.
EmptyOrPast(d, dl) == d = "" \/ (dl # None /\ dl[1] < clock)

C14_NotFoundDistinct ==
    [][(/\ reply'.cmd = "mission_update"
        /\ \A i \in DOMAIN missions :
              ~(missions[i].id = reply'.id /\ missions[i].guild = reply'.guild))
          => /\ reply'.text # UPDATE_REFUSED
             /\ missions' = missions
      ]_vars

\* The decision C15 states for a row read by a scan.
Decision(row) ==
    IF 0 < Remaining(row) /\ Remaining(row) <= HOUR /\ ~row.r1 THEN "1h"
    ELSE IF HOUR < Remaining(row) /\ Remaining(row) <= DAY /\ ~row.r24
    THEN "24h"
    ELSE "none"

\* The notices the flags of a row stand for, in the order they are sent.
Flagged(row) ==
    (IF row.r24 THEN <<"24h">> ELSE <<>>) \o (IF row.r1 THEN <<"1h">> ELSE <<>>)

\* C15: when a scan ends, for every mission it read: if 0 < remaining <= 1h
\* and reminded_1 was false, the scan sent exactly the 1-hour notice and set
\* reminded_1; else if 1h < remaining <= 24h and reminded_24 was false, it
\* sent exactly the 24-hour notice and set reminded_24; otherwise it sent
\* nothing and changed no flag. Remaining is deadline - now, now taken at
\* the start of the scan; a scan sends at most one notice per mission.
C15_ScanDecision ==
    [][(scan.pc = "loop" /\ scan'.pc = "idle") =>
          \A n \in DOMAIN scan.rows :
             LET row == scan.rows[n]
                 d == Decision(row)
             IN  /\ sent[row.id] =
                       Flagged(row) \o (IF d = "none" THEN <<>> ELSE <<d>>)
                 /\ missions[row.id].reminded_1 = (row.r1 \/ d = "1h")
                 /\ missions[row.id].reminded_24 = (row.r24 \/ d = "24h")
      ]_vars

\* A scan is about to end that read two missions: one in the 24-hour window
\* for which it sent the 24-hour notice, and one for which it sent nothing.
C15_Witness ==
    /\ scan.pc = "loop"
    /\ next_due(scan.rows, scan.i, scan.now) > Len(scan.rows)
    /\ Len(scan.rows) = 2
    /\ \E n \in DOMAIN scan.rows :
          /\ Decision(scan.rows[n]) = "24h"
          /\ sent[scan.rows[n].id] = <<"24h">>
          /\ missions[scan.rows[n].id].reminded_24
    /\ \E n \in DOMAIN scan.rows :
          /\ Decision(scan.rows[n]) = "none"
          /\ scan.rows[n].r24
          /\ sent[scan.rows[n].id] = <<"24h">>

\* The rows of the snapshot from position i on whose assignee resolves.
Present(rows, i) ==
    SelectSeq(SubSeq(rows, i, Len(rows)), LAMBDA r : r.uid \in cache)

\* The rows of a sequence for which C15's decision is to send.
Due(rows) == SelectSeq(rows, LAMBDA r : Decision(r) # "none")

\* C16: the loop passes over a row whose assignee does not resolve without
\* sending for it and without changing its flags, and goes on as if the row
\* were absent: the row it sends for next is the first row due among those
\* whose assignee resolves, it gets the notice of C15's decision, and the
\* scan ends only when no such row is left. No step sends for a mission
\* whose assignee does not resolve.
C16_UnresolvedSkipped ==
    [][/\ (scan.pc = "loop" /\ scan'.pc = "mark") =>
             LET due == Due(Present(scan.rows, scan.i))
                 row == scan.rows[scan'.i]
             IN  /\ due # <<>>
                 /\ row = due[1]
                 /\ scan'.kind = Decision(row)
                 /\ sent' = [sent EXCEPT ![row.id] = Append(@, Decision(row))]
                 /\ missions' = missions
       /\ (scan.pc = "loop" /\ scan'.pc = "idle") =>
             /\ Due(Present(scan.rows, scan.i)) = <<>>
             /\ sent' = sent
             /\ missions' = missions
       /\ \A m \in DOMAIN missions :
             missions[m].assignee \notin cache =>
                /\ sent'[m] = sent[m]
                /\ scan.pc = "loop" =>
                      /\ missions'[m].reminded_1 = missions[m].reminded_1
                      /\ missions'[m].reminded_24 = missions[m].reminded_24
      ]_vars

\* The loop has passed over the first row, which is in a window but whose
\* assignee does not resolve, and has sent the notice of the second row.
C16_Witness ==
    /\ scan.pc = "mark"
    /\ scan.i = 2
    /\ scan.rows[1].uid \notin cache
    /\ Decision(scan.rows[1]) # "none"
    /\ sent[scan.rows[1].id] = <<>>
    /\ sent[scan.rows[2].id] = <<scan.kind>>

\* C17: when member.send fails for a row, the loop goes on with the row
\* after it, and the loop task stays alive: from a point of the loop where
\* a row is due, the scan either waits, sends for that row, or moves past
\* it, and the number of live loop tasks never drops.
C17_SendFailureSkips ==
    [][/\ (/\ scan.pc = "loop"
           /\ next_due(scan.rows, scan.i, scan.now) <= Len(scan.rows))
          => \/ scan' = scan
             \/ scan' = [scan EXCEPT !.pc = "mark",
                            !.i = next_due(scan.rows, scan.i, scan.now),
                            !.kind = scan'.kind]
             \/ scan' = [scan EXCEPT
                            !.i = next_due(scan.rows, scan.i, scan.now) + 1]
       /\ loops' >= loops
      ]_vars

\* C18: a notice whose delivery failed is attempted again by the next scan
\* that reads its mission while the mission is open and still in the window
\* of that notice: such a scan does not come to its end, or stop, without
\* having attempted it; the flag of the notice stays false until then, and
\* a flag is true only if its notice was sent.
C18_FailedSendRetried ==
    /\ [](\A m \in DOMAIN missions :
             /\ missions[m].reminded_1 => Count(m, "1h") > 0
             /\ missions[m].reminded_24 => Count(m, "24h") > 0
             /\ "1h" \in failed[m] => ~missions[m].reminded_1
             /\ "24h" \in failed[m] => ~missions[m].reminded_24)
    /\ [][\A n \in DOMAIN scan.rows :
             (/\ scan.pc \in {"loop", "mark"}
              /\ scan'.pc \in {"idle", "stopped"}
              /\ Decision(scan.rows[n]) # "none"
              /\ Decision(scan.rows[n]) \in failed[scan.rows[n].id])
                => /\ scan.pc = "loop"
                   /\ next_due(scan.rows, scan.i, scan.now) = n
         ]_vars

\* C19: whatever send or flag write fails, no step sends for a mission a
\* notice that was already sent for it.
C19_NoResendAfterWriteFailure ==
    [][\A m \in 1..MaxMissions :
          sent'[m] # sent[m] =>
             \A n \in DOMAIN sent[m] : sent[m][n] # sent'[m][Len(sent'[m])]
      ]_vars

\* C20: at most one deadline_check loop task is alive and a scan is in
\* progress only inside it; however often on_ready fires, it starts the
\* loop only when no loop task is alive, once started the loop stays the
\* only one, and an on_ready that fires during a scan leaves that scan as
\* it is, so the steps of two scans never interleave.
C20_SingleScanner ==
    /\ [](/\ loops <= 1
          /\ scan.pc # "stopped" <=> loops = 1)
    /\ [][/\ loops' # loops =>
                /\ reply'.cmd = "on_ready"
                /\ loops = 0 /\ loops' = 1
                /\ scan.pc = "stopped" /\ scan' = Idle
          /\ (reply'.cmd = "on_ready" /\ loops = 1) => scan' = scan
          /\ scan'.pc = "select" => scan.pc \in {"idle", "select"}
         ]_vars

\* on_ready has fired while a scan was between its send and its flag
\* write, and the scan is still there.
C20_Witness ==
    /\ reply.cmd = "on_ready"
    /\ loops = 1
    /\ scan.pc = "mark"

====
